---------------------------- MODULE Spec2Model ----------------------------
(***************************************************************************)
(* The ICMP Echo client of src/backend/templates/cpp/Raw Socket.cpp:       *)
(* main() resolves a host, opens a raw ICMP socket and then loops          *)
(* fill_packet / sendto / recvfrom / ++seq / sleep_for(1s).  The process   *)
(* is the only thread; the environment is the network (datagrams and       *)
(* errors queued on the socket), the steady clock and process signals.     *)
(***************************************************************************)
EXTENDS Integers, Sequences, FiniteSets, TLC

VARIABLES
    pc,        \* the statement of main() that runs next
    sock,      \* the raw socket: "none", "open" or "closed"
    pid,       \* uint16_t pid (line 67), the identifier of the session
    seq,       \* uint16_t seq (line 67)
    send_buf,  \* the ICMP header fields fill_packet wrote into send_buf
    send_rc,   \* what the last sendto returned (main discards it)
    rxq,       \* the socket's receive queue, oldest first
    recv_buf,  \* the datagram the last successful recvfrom stored
    t1,        \* steady_clock reading taken before sendto (line 72)
    now,       \* the steady clock
    out,       \* the line the current loop iteration wrote to std::cout
    err,       \* the message the catch block wrote to std::cerr
    iter,      \* number of Echo-Requests built so far (fill_packet calls)
    killed_at, \* the statement a fatal signal ended the process at, if any
    awaiting,  \* requests handed to sendto whose recvfrom has not returned
    \* checksum() and fill_packet() on byte buffers
    host,      \* byte order of the host: "le" or "be"
    phase,     \* how far the call under study has got
    run,       \* number of 0xffff words the buffer starts with, before cbuf
    cbuf,      \* the bytes of the buffer, in memory order
    now_us,    \* the 8 bytes of now_us (line 51), in memory order
    acc,       \* sum after the loop of checksum(), lines 17-20
    cres,      \* the value checksum() returned
    cres2      \* the value checksum() returned for the altered buffer

ck_vars == <<host, phase, run, cbuf, now_us, acc, cres, cres2>>

main_vars == <<pc, sock, pid, seq, send_buf, send_rc, rxq, recv_buf, t1, now,
               out, err, iter, killed_at, awaiting>>

vars == <<pc, sock, pid, seq, send_buf, send_rc, rxq, recv_buf, t1, now,
          out, err, iter, killed_at, awaiting, ck_vars>>

---------------------------------------------------------------------------
(* Bounds of the model *)

\* iterations of the loop explored by Spec
MaxIter == 3
\* datagrams the socket queue holds at once
MaxQueue == 1
\* clock ticks that may pass inside one receive wait
MaxWait == 1
\* iterations explored by SpecWrap (past the 16-bit wraparound)
WrapIters == 65537

\* bytes of the explicit part of a buffer given to checksum()
MaxBufLen == 4
\* 0xffff words in front of it: 2 * MaxRun + MaxBufLen bytes in all
MaxRun == 32764

(* Program constants *)

\* std::vector<uint8_t> send_buf(64)
BufSize == 64
\* sizeof(icmp), the offset fill_packet copies now_us to
IcmpSize == 28

\* uint16_t seq: arithmetic is modulo 2^16
SeqMod == 65536
\* std::chrono::seconds(1)
SleepInterval == 1
\* icmp_type of an Echo-Request
ICMP_ECHO == 8

\* the identifiers in play: the session takes one, another pinger the other
PidSet == {1, 2}

NoLine == [kind |-> "none", seq |-> 0, rtt |-> 0]
NoErr == "none"

\* recvfrom failing (-1): an error queued on the socket
RxError == [n |-> -1, type |-> 0, id |-> 0, seq |-> 0, ck |-> FALSE]

\* the Echo-Reply a responder returns for the request in buf
Echo(buf) == [n |-> 1, type |-> 0, id |-> buf.id, seq |-> buf.seq, ck |-> TRUE]

\* ICMP datagrams the raw socket may deliver while the request in buf is the
\* latest one: its reply, a reply to another pinger's identifier, a reply to
\* the previous sequence number, a reply damaged in transit, and the request
\* itself handed back (type 8)
Traffic(buf) ==
    { Echo(buf),
      [Echo(buf) EXCEPT !.id = (buf.id + 1) % SeqMod],
      [Echo(buf) EXCEPT !.seq = (buf.seq + SeqMod - 1) % SeqMod],
      [Echo(buf) EXCEPT !.ck = FALSE],
      [Echo(buf) EXCEPT !.type = ICMP_ECHO] }

\* an Echo-Reply addressed to another pinger of the host
Foreign(buf) == [Echo(buf) EXCEPT !.id = (buf.id + 1) % SeqMod]

LoopPcs == {"fill_packet", "sendto", "recvfrom", "inc", "sleep"}
LivePcs == {"resolve", "create_socket", "alloc"} \cup LoopPcs

---------------------------------------------------------------------------
\* main()'s own state where the body of main starts, but for pid and seq
RestInit ==
    /\ pc = "resolve"
    /\ sock = "none"
    /\ send_buf = [type |-> 0, id |-> 0, seq |-> 0]
    /\ send_rc = "none"
    /\ rxq = <<>>
    /\ recv_buf = [n |-> 0, type |-> 0, id |-> 0, seq |-> 0, ck |-> FALSE]
    /\ t1 = 0
    /\ now = 0
    /\ out = NoLine
    /\ err = NoErr
    /\ iter = 0
    /\ killed_at = "none"
    /\ awaiting = 0

Init ==
    /\ RestInit
    /\ pid = 0
    /\ seq = 0
    /\ host = "le"
    /\ phase = "idle"
    /\ run = 0
    /\ cbuf = <<>>
    /\ now_us = <<>>
    /\ acc = 0
    /\ cres = 0
    /\ cres2 = 0

---------------------------------------------------------------------------
(* Startup: lines 60-69 and the catch block, lines 90-93 *)

\* resolve() returns the address: main goes on to create_socket()
ResolveOk ==
    /\ pc = "resolve"
    /\ pc' = "create_socket"
    /\ UNCHANGED <<sock, pid, seq, send_buf, send_rc, rxq, recv_buf, t1, now,
                   out, err, iter,
                   killed_at, awaiting, ck_vars>>

ResolveFail_Retry ==
    /\ pc = "resolve"
    /\ err = NoErr
    /\ err' = "resolve failed"
    /\ pc' = "resolve"
    /\ UNCHANGED <<sock, pid, seq, send_buf, send_rc, rxq, recv_buf, t1, now,
                   out, iter,
                   killed_at, awaiting, ck_vars>>

\* getaddrinfo fails: resolve() throws, the catch block prints and returns
ResolveFail ==
    /\ pc = "resolve"
    /\ err' = "resolve failed"
    /\ pc' = "done"
    /\ UNCHANGED <<sock, pid, seq, send_buf, send_rc, rxq, recv_buf, t1, now,
                   out, iter,
                   killed_at, awaiting, ck_vars>>

\* socket() returns a descriptor
CreateSocketOk ==
    /\ pc = "create_socket"
    /\ sock' = "open"
    /\ pc' = "alloc"
    /\ UNCHANGED <<pid, seq, send_buf, send_rc, rxq, recv_buf, t1, now, out,
                   err, iter,
                   killed_at, awaiting, ck_vars>>

CreateSocketFail_GoOn ==
    /\ pc = "create_socket"
    /\ err' = "socket failed"
    /\ pc' = "alloc"
    /\ UNCHANGED <<sock, pid, seq, send_buf, send_rc, rxq, recv_buf, t1, now,
                   out, iter,
                   killed_at, awaiting, ck_vars>>

\* socket() < 0: create_socket() throws, the catch block prints and returns
CreateSocketFail ==
    /\ pc = "create_socket"
    /\ err' = "socket failed"
    /\ pc' = "done"
    /\ UNCHANGED <<sock, pid, seq, send_buf, send_rc, rxq, recv_buf, t1, now,
                   out, iter,
                   killed_at, awaiting, ck_vars>>

\* lines 66-69: the two buffers, pid = getpid() & 0xffff, seq = 0
AllocOk(pids) ==
    /\ pc = "alloc"
    /\ \E p \in pids : pid' = p
    /\ seq' = 0
    /\ pc' = "fill_packet"
    /\ UNCHANGED <<sock, send_buf, send_rc, rxq, recv_buf, t1, now, out, err,
                   iter,
                   killed_at, awaiting, ck_vars>>

\* a std::vector constructor of line 66 throws std::bad_alloc: it is a
\* std::exception, so the catch block prints and returns; nothing closes sock
AllocFail ==
    /\ pc = "alloc"
    /\ err' = "std::bad_alloc"
    /\ pc' = "done"
    /\ UNCHANGED <<sock, pid, seq, send_buf, send_rc, rxq, recv_buf, t1, now,
                   out, iter,
                   killed_at, awaiting, ck_vars>>

---------------------------------------------------------------------------
(* The loop: lines 70-88 *)

\* fill_packet(send_buf, pid, seq): header of an Echo-Request
fill_packet(id, s) == [type |-> ICMP_ECHO, id |-> id, seq |-> s]

\* line 71; limit caps the iterations the model explores
FillPacket(limit) ==
    /\ pc = "fill_packet"
    /\ iter < limit
    /\ send_buf' = fill_packet(pid, seq)
    /\ iter' = iter + 1
    /\ out' = NoLine
    /\ pc' = "sendto"
    /\ UNCHANGED <<sock, pid, seq, send_rc, rxq, recv_buf, t1, now, err,
                   killed_at, awaiting, ck_vars>>

Sendto_NoWait ==
    /\ pc = "sendto"
    /\ t1' = now
    /\ \E rc \in {"ok", "fail"} : send_rc' = rc
    /\ awaiting' = awaiting + 1
    /\ pc' = "inc"
    /\ UNCHANGED <<sock, pid, seq, send_buf, rxq, recv_buf, now, out, err,
                   iter,
                   killed_at, ck_vars>>

\* lines 72-74: t1 is read, sendto succeeds or fails, its result is dropped
Sendto ==
    /\ pc = "sendto"
    /\ t1' = now
    /\ \E rc \in {"ok", "fail"} : send_rc' = rc
    /\ awaiting' = awaiting + 1
    /\ pc' = "recvfrom"
    /\ UNCHANGED <<sock, pid, seq, send_buf, rxq, recv_buf, now, out, err,
                   iter,
                   killed_at, ck_vars>>

ReplyLine_Swapped == [kind |-> "Reply", seq |-> seq, rtt |-> t1 - now]

\* the line of lines 83-84, printed for whatever recvfrom returned
ReplyLine == [kind |-> "Reply", seq |-> seq, rtt |-> now - t1]

\* lines 75-85: recvfrom blocks until the queue holds something; a datagram
\* (> 0 bytes) is printed as a reply, an error (-1) prints nothing
Recvfrom ==
    /\ pc = "recvfrom"
    /\ rxq # <<>>
    /\ rxq' = Tail(rxq)
    /\ IF Head(rxq).n > 0
          THEN /\ recv_buf' = Head(rxq)
               /\ out' = ReplyLine
          ELSE UNCHANGED <<recv_buf, out>>
    /\ awaiting' = awaiting - 1
    /\ pc' = "inc"
    /\ UNCHANGED <<sock, pid, seq, send_buf, send_rc, t1, now, err, iter,
                   killed_at, ck_vars>>

IncSeq_SkipOnSendFail ==
    /\ pc = "inc"
    /\ seq' = IF send_rc = "fail" THEN seq ELSE (seq + 1) % SeqMod
    /\ pc' = "sleep"
    /\ UNCHANGED <<sock, pid, send_buf, send_rc, rxq, recv_buf, t1, now, out,
                   err, iter,
                   killed_at, awaiting, ck_vars>>

\* line 86: ++seq on a uint16_t
IncSeq ==
    /\ pc = "inc"
    /\ seq' = (seq + 1) % SeqMod
    /\ pc' = "sleep"
    /\ UNCHANGED <<sock, pid, send_buf, send_rc, rxq, recv_buf, t1, now, out,
                   err, iter,
                   killed_at, awaiting, ck_vars>>

Sleep_Exit ==
    /\ pc = "sleep"
    /\ now' = now + SleepInterval
    /\ pc' = IF out = NoLine THEN "done" ELSE "fill_packet"
    /\ UNCHANGED <<sock, pid, seq, send_buf, send_rc, rxq, recv_buf, t1, out,
                   err, iter,
                   killed_at, awaiting, ck_vars>>

\* line 87: sleep_for(1s), then back to the head of while (true)
Sleep ==
    /\ pc = "sleep"
    /\ now' = now + SleepInterval
    /\ pc' = "fill_packet"
    /\ UNCHANGED <<sock, pid, seq, send_buf, send_rc, rxq, recv_buf, t1, out,
                   err, iter,
                   killed_at, awaiting, ck_vars>>

---------------------------------------------------------------------------
(* The environment *)

\* a datagram or an error is queued on the open socket
Arrive(traffic) ==
    /\ pc \in LivePcs
    /\ sock = "open"
    /\ Len(rxq) < MaxQueue
    /\ \E d \in traffic : rxq' = Append(rxq, d)
    /\ UNCHANGED <<pc, sock, pid, seq, send_buf, send_rc, recv_buf, t1, now,
                   out, err, iter,
                   killed_at, awaiting, ck_vars>>

\* while main waits in recvfrom with nothing queued, the responder's reply
\* to the request in send_buf, or another pinger's reply, arrives
ArrivePrompt ==
    /\ pc = "recvfrom"
    /\ rxq = <<>>
    /\ \E d \in {Echo(send_buf), Foreign(send_buf)} : rxq' = <<d>>
    /\ UNCHANGED <<pc, sock, pid, seq, send_buf, send_rc, recv_buf, t1, now,
                   out, err, iter,
                   killed_at, awaiting, ck_vars>>

\* a responder that answers every request it receives with exactly one
\* matching Echo-Reply; nothing else reaches the socket
Respond ==
    /\ pc = "recvfrom"
    /\ send_rc = "ok"
    /\ rxq = <<>>
    /\ rxq' = <<Echo(send_buf)>>
    /\ UNCHANGED <<pc, sock, pid, seq, send_buf, send_rc, recv_buf, t1, now,
                   out, err, iter,
                   killed_at, awaiting, ck_vars>>

\* the steady clock advances while main is blocked in recvfrom
Tick ==
    /\ pc = "recvfrom"
    /\ now - t1 < MaxWait
    /\ now' = now + 1
    /\ UNCHANGED <<pc, sock, pid, seq, send_buf, send_rc, rxq, recv_buf, t1,
                   out, err, iter,
                   killed_at, awaiting, ck_vars>>

\* SIGINT/SIGTERM: main installs no handler and polls no flag, so the
\* default action ends the process where it stands; line 89 never runs
Cancel ==
    /\ pc \in LivePcs
    /\ pc' = "killed"
    /\ killed_at' = pc
    /\ UNCHANGED <<sock, pid, seq, send_buf, send_rc, rxq, recv_buf, t1, now,
                   out, err, iter, awaiting, ck_vars>>

---------------------------------------------------------------------------
\* the steps main itself takes
Step(limit, pids) ==
    \/ ResolveOk
    \/ ResolveFail
    \/ CreateSocketOk
    \/ CreateSocketFail
    \/ AllocOk(pids)
    \/ AllocFail
    \/ FillPacket(limit)
    \/ Sendto
    \/ Recvfrom
    \/ IncSeq
    \/ Sleep

Next ==
    \/ Step(MaxIter, PidSet)
    \/ Arrive(Traffic(send_buf) \cup {RxError})
    \/ Tick
    \/ Cancel

Spec == Init /\ [][Next]_vars

\* the loop alone, run past the wraparound of seq: no signal, no clock tick
\* other than the sleep, and traffic only while main waits for it
NextWrap ==
    \/ Step(WrapIters, {1})
    \/ ArrivePrompt

SpecWrap == Init /\ [][NextWrap]_vars

\* the session against the responder of Respond
NextEcho ==
    \/ Step(MaxIter, PidSet)
    \/ Respond
    \/ Tick
    \/ Cancel

SpecEcho == Init /\ [][NextEcho]_vars

---------------------------------------------------------------------------
(* checksum(), lines 13-24, and fill_packet(), lines 44-56, on bytes.      *)
(* A buffer is the sequence of its bytes in memory order; a uint16_t read  *)
(* or written through a pointer takes the host's byte order.  No sum here  *)
(* reaches 2^31, so the uint32_t accumulator never wraps.                  *)

Hosts == {"le", "be"}

\* *ptr for the two bytes b0, b1 at ptr (line 18)
Word(b0, b1, h) == IF h = "le" THEN b0 + 256 * b1 ELSE 256 * b0 + b1

\* the two bytes a uint16_t store of v writes (lines 49, 50, 55)
U16(v, h) == IF h = "le" THEN <<v % 256, v \div 256>>
                         ELSE <<v \div 256, v % 256>>

\* lines 17-18: the sum of the whole 16-bit words of buf
WordSum(buf, h) ==
    LET n == Len(buf) \div 2
        S[k \in 0..n] ==
            IF k = 0 THEN 0
                     ELSE S[k - 1] + Word(buf[2 * k - 1], buf[2 * k], h)
    IN  S[n]

OddByte_Dropped(buf) == 0

\* lines 19-20: a leftover byte is added as a uint8_t
OddByte(buf) == IF Len(buf) % 2 = 1 THEN buf[Len(buf)] ELSE 0

\* lines 16-20 for the buffer made of r words 0xffff followed by buf
Sum(r, buf, h) == r * Word(255, 255, h) + WordSum(buf, h) + OddByte(buf)

FoldSum_OneFold(sum) ==
    LET a == (sum \div 65536) + (sum % 65536)
    IN  65535 - (a % 65536)

\* lines 21-23: the two folding steps, then ~sum cut to 16 bits
FoldSum(sum) ==
    LET a == (sum \div 65536) + (sum % 65536)
        b == a + (a \div 65536)
    IN  65535 - (b % 65536)

\* checksum(data, len)
checksum(buf, h) == FoldSum(Sum(0, buf, h))

\* lines 47-55 on the buffer base: type, id, seq, the timestamp at
\* sizeof(icmp), then the checksum of the whole buffer into icmp_cksum
FillFrom(base, id, s, ts, h) ==
    LET hdr == [i \in 1..Len(base) |->
                  IF i = 1 THEN ICMP_ECHO
                  ELSE IF i \in {5, 6} THEN U16(id, h)[i - 4]
                  ELSE IF i \in {7, 8} THEN U16(s, h)[i - 6]
                  ELSE IF i \in (IcmpSize + 1)..(IcmpSize + Len(ts))
                       THEN ts[i - IcmpSize]
                  ELSE base[i]]
        c == U16(checksum(hdr, h), h)
    IN  [hdr EXCEPT ![3] = c[1], ![4] = c[2]]

FillBytes_NoZero(buf, id, s, ts, h) == FillFrom(buf, id, s, ts, h)

\* fill_packet(buf, id, seq): std::fill with 0 (line 46), then the fields
FillBytes(buf, id, s, ts, h) ==
    FillFrom([i \in 1..Len(buf) |-> 0], id, s, ts, h)

\* byte values the buffers are made of
CkBytes == {0, 1, 255}

\* the explicit parts of the buffers given to checksum()
Buffers == UNION {[1..n -> CkBytes] : n \in 0..MaxBufLen}

\* identifiers and sequence numbers given to fill_packet()
FillIds == {0, 1, 255, 256, 65535}

\* bytes of now_us given to fill_packet()
Stamps == {[i \in 1..8 |-> 0], [i \in 1..8 |-> 255], [i \in 1..8 |-> i]}

\* a call of checksum() on a buffer
InitChecksum ==
    /\ RestInit
    /\ pid = 0
    /\ seq = 0
    /\ host \in Hosts
    /\ phase = "input"
    /\ run \in {0, 1, MaxRun}
    /\ cbuf \in Buffers
    /\ now_us = <<>>
    /\ acc = 0
    /\ cres = 0
    /\ cres2 = 0

\* a call of fill_packet() on the 64-byte send buffer, whatever it holds
InitFill ==
    /\ RestInit
    /\ pid \in FillIds
    /\ seq \in FillIds
    /\ host \in Hosts
    /\ phase = "input"
    /\ run = 0
    /\ cbuf \in {[i \in 1..BufSize |-> b] : b \in CkBytes}
    /\ now_us \in Stamps
    /\ acc = 0
    /\ cres = 0
    /\ cres2 = 0

\* checksum() runs on the buffer and returns
ChecksumCall(from, to) ==
    /\ phase = from
    /\ acc' = Sum(run, cbuf, host)
    /\ cres' = FoldSum(acc')
    /\ phase' = to
    /\ UNCHANGED <<host, run, cbuf, now_us, cres2, main_vars>>

\* one byte of the buffer is replaced by a different value and checksum()
\* runs on the result
AlterByte ==
    /\ phase = "summed"
    /\ \E i \in 1..Len(cbuf) : \E v \in (0..255) \ {cbuf[i]} :
          cbuf' = [cbuf EXCEPT ![i] = v]
    /\ cres2' = FoldSum(Sum(run, cbuf', host))
    /\ phase' = "altered"
    /\ UNCHANGED <<host, run, now_us, acc, cres, main_vars>>

\* fill_packet(send_buf, pid, seq) runs
FillCall ==
    /\ phase = "input"
    /\ cbuf' = FillBytes(cbuf, pid, seq, now_us, host)
    /\ phase' = "filled"
    /\ UNCHANGED <<host, run, now_us, acc, cres, cres2, main_vars>>

NextChecksum ==
    \/ ChecksumCall("input", "summed")
    \/ AlterByte

SpecChecksum == InitChecksum /\ [][NextChecksum]_vars

NextFill ==
    \/ FillCall
    \/ ChecksumCall("filled", "verified")

SpecFill == InitFill /\ [][NextFill]_vars

---------------------------------------------------------------------------
(* The states of the session *)

Resolving == pc = "resolve"
SocketOpening == pc = "create_socket"
Pinging == pc \in LoopPcs
\* main has returned
Terminated == pc = "done"

\* the datagram in recv_buf answers the request in send_buf
Matches == recv_buf.id = send_buf.id /\ recv_buf.seq = send_buf.seq

---------------------------------------------------------------------------
(* C1: every wait for a reply is bounded: when the timeout (one sleep      *)
(* interval) has elapsed since the request was sent and nothing has        *)
(* arrived, main can leave the wait and go on with the iteration.          *)
C1_WaitBounded ==
    (pc = "recvfrom" /\ rxq = <<>> /\ now - t1 >= SleepInterval)
        => ENABLED Step(MaxIter, PidSet)

(* C2: the socket is released on every exit path: whenever the session is  *)
(* Terminated and the socket was opened, the socket has been closed.       *)
C2_SocketReleased ==
    (Terminated /\ sock # "none") => sock = "closed"

(* C3: a datagram is reported as the Reply of an iteration only if its     *)
(* identifier and sequence equal those of the request just sent.           *)
C3_OnlyMatchingReported ==
    out.kind = "Reply" => Matches

(* C4: every iteration reports exactly one outcome, Reply or Timeout, for  *)
(* its sequence number before the next request is sent.                    *)
C4_OneOutcomePerIteration ==
    (pc \in {"inc", "sleep"} /\ send_rc = "ok") =>
        /\ out.kind \in {"Reply", "Timeout"}
        /\ out.seq = send_buf.seq

(* C5: when the send of a request fails the iteration skips the wait for a *)
(* reply: main is never in the receive wait for a request whose send       *)
(* failed.                                                                 *)
C5_SendFailSkipsWait ==
    pc = "recvfrom" => send_rc # "fail"

(* C6: when resolution fails the session is Terminated with the            *)
(* resolution error reported, and no socket was opened, no request built   *)
(* and nothing sent.                                                       *)
C6_ResolveFailTerminates ==
    err = "resolve failed" =>
        /\ Terminated
        /\ sock = "none"
        /\ iter = 0
        /\ send_rc = "none"

C6_Witness == err = "resolve failed" /\ Terminated

(* C7: when opening the socket fails the session is Terminated with the    *)
(* open error reported; Pinging is never entered and nothing is sent.      *)
C7_SocketFailTerminates ==
    err = "socket failed" =>
        /\ Terminated
        /\ ~Pinging
        /\ sock = "none"
        /\ iter = 0
        /\ send_rc = "none"

C7_Witness == err = "socket failed" /\ Terminated /\ sock = "none"

C9_CancelClosesSocket ==
    (pc = "killed" /\ killed_at \in {"recvfrom", "sleep"}) => sock = "closed"

(* C10: the k-th Echo-Request (k from 0) carries sequence k mod 65536,     *)
(* whatever the outcomes of the iterations before it.                      *)
C10_SeqIsCount ==
    iter > 0 => send_buf.seq = (iter - 1) % SeqMod

\* request number 65536 has been built and carries sequence 0 again
C10_Witness ==
    /\ pc = "sendto"
    /\ iter = SeqMod + 1
    /\ send_buf.seq = 0

(* C11: requests are sequential, not pipelined: at most one request is    *)
(* awaiting its reply, and a request is sent only when none is, i.e. after *)
(* the receive wait of the request before it has ended.                    *)
C11_OneInFlight ==
    /\ awaiting \in {0, 1}
    /\ pc = "sendto" => awaiting = 0
    /\ pc = "recvfrom" => awaiting = 1

\* the second request is awaiting its reply, the first no longer
C11_Witness ==
    /\ pc = "recvfrom"
    /\ iter = 2
    /\ awaiting = 1

(* C12: against a responder that answers every request with exactly one  *)
(* matching reply and no other traffic, iteration number i ends with the   *)
(* outcome Reply for sequence i-1 (0, 1, 2, ... without gap), the reported *)
(* datagram is the reply to the request just sent, no other outcome is     *)
(* reported and every RTT is >= 0.                                         *)
C12_EchoOutcomes ==
    /\ out.kind \in {"none", "Reply"}
    /\ out.kind = "Reply" =>
          /\ out.seq = (iter - 1) % SeqMod
          /\ out.rtt >= 0
          /\ recv_buf = Echo(send_buf)
    /\ pc \in {"inc", "sleep"} => out.kind = "Reply"

\* the second iteration reported sequence 1 with a positive RTT
C12_Witness ==
    /\ pc = "inc"
    /\ iter = 2
    /\ out.kind = "Reply"
    /\ out.seq = iter - 1
    /\ out.rtt > 0

(* C13: a received datagram whose checksum does not verify is discarded:  *)
(* it is never reported as a Reply.                                        *)
C13_BadChecksumDiscarded ==
    out.kind = "Reply" => recv_buf.ck

(* C14: a received datagram is reported as a Reply only if its type field  *)
(* is Echo-Reply (0); the session's own Echo-Request (type 8) handed back  *)
(* by the raw socket is never reported.                                    *)
C14_OnlyEchoReplyReported ==
    out.kind = "Reply" => recv_buf.type = 0

\* one application of sum = (sum >> 16) + (sum & 0xFFFF)
Fold(sum) == (sum \div 65536) + (sum % 65536)

(* C15: checksum round-trip: for every identifier, sequence and send       *)
(* instant, and whatever the buffer held before, checksum() over the whole *)
(* packet fill_packet produced, checksum field included, is 0.             *)
C15_FilledPacketVerifies ==
    phase = "verified" => cres = 0

\* a packet with identifier 0xffff and a timestamp of 0xff bytes verified
C15_Witness ==
    /\ phase = "verified"
    /\ Len(cbuf) = BufSize
    /\ pid = 65535
    /\ now_us[1] = 255
    /\ cres = 0

(* C16: replacing any one byte of a buffer by a different value changes    *)
(* the value checksum() returns.                                           *)
C16_SingleByteChangeDetected ==
    phase = "altered" => cres2 # cres

\* a byte of an odd-length tail behind a long run of 0xffff words altered
C16_Witness ==
    /\ phase = "altered"
    /\ Len(cbuf) % 2 = 1
    /\ run = MaxRun

(* C17: the encoded Echo-Request carries identifier and sequence in        *)
(* network byte order whatever the host: byte 0 is 8, byte 1 is 0, bytes 4 *)
(* and 5 are the high and low byte of the identifier, bytes 6 and 7 the    *)
(* high and low byte of the sequence.                                      *)
C17_NetworkByteOrder ==
    phase = "filled" =>
        /\ cbuf[1] = ICMP_ECHO
        /\ cbuf[2] = 0
        /\ cbuf[5] = pid \div 256
        /\ cbuf[6] = pid % 256
        /\ cbuf[7] = seq \div 256
        /\ cbuf[8] = seq % 256

(* C18: for every sum a buffer of up to 65535 bytes produces, checksum()   *)
(* returns the one's complement of the fully folded sum: its two folding   *)
(* steps give what applying sum = (sum >> 16) + (sum & 0xFFFF) twice       *)
(* gives, and after that no carry is left.                                 *)
C18_FoldsFully ==
    phase \in {"summed", "altered"} =>
        /\ Fold(Fold(acc)) <= 65535
        /\ cres = 65535 - Fold(Fold(acc))

\* the first fold leaves a carry, for a buffer of more than 65528 bytes
C18_Witness ==
    /\ phase = "summed"
    /\ run = MaxRun
    /\ Fold(acc) > 65535

(* C19: for a buffer of odd length checksum() returns what it returns for  *)
(* the same buffer extended by one zero byte: the leftover byte counts as  *)
(* the first byte of a 16-bit word whose second byte is zero.              *)
C19_OddByteZeroPadded ==
    (phase = "summed" /\ Len(cbuf) % 2 = 1) =>
        cres = FoldSum(Sum(run, Append(cbuf, 0), host))

===========================================================================
